---- MODULE Spec2Model ----
(***************************************************************************)
(* Surface lifecycle and render loop of the two canvas components:        *)
(*   SkiaCanvas             (src/unnamed/part_009, "plain")                *)
(*   SkiaInteractiveCanvas  (src/src/skia-interactive-canvas.tsx)          *)
(*                                                                         *)
(* One component instance is modelled together with the engine surfaces   *)
(* created for its canvas element and the browser's queue of pending       *)
(* requestAnimationFrame callbacks.  Every action is one host-driven step  *)
(* (a React commit with its effects, a pointer handler with the commit it  *)
(* causes, an animation frame callback, an imperative call).  Exceptions   *)
(* are modelled by the field exc of the machine record: a raised error     *)
(* skips the rest of the enclosing code until a try/catch of the source    *)
(* clears it; an exc that survives the whole step has escaped to the host. *)
(***************************************************************************)
EXTENDS Integers, Sequences, FiniteSets, TLC

\* ------------------------------------------------------------------ bounds
\* Largest number of requestAnimationFrame callbacks pending at once.
MaxPending == 2
\* Largest number of canvas.save() calls left without their restore() on one
\* surface.
MaxSaves == 3

\* ---------------------------------------------------------------- domains
\* null of useRef<Surface | null>(null) / useRef<number | null>(null)
Null == 0
Variants == {"plain", "interactive"}
\* logical (width, height) props
Sizes == {<<3, 2>>, <<4, 3>>}
\* window.devicePixelRatio as a fraction <<numerator, denominator>>
Dprs == {<<1, 1>>, <<3, 2>>}
PointerIds == {1, 2}
\* normalized pointer positions; <<>> is pointerPosition: null
Positions == {<<1, 1>>}
NoPosition == <<>>
\* outcomes of MakeCanvasSurface / MakeSWCanvasSurface
Outcomes == {"ok", "null", "raise"}
\* The constructors' current behaviour <<hardware, software>>; the software
\* constructor is not reached when the hardware one succeeds.
EngineModes == {e \in Outcomes \X Outcomes : e[1] = "ok" => e[2] = "ok"}
\* what the onDraw prop does when called: it returns or it raises
OnDrawModes == {"ok", "cbRaise"}
\* what happens inside one paint: the callback returns, the callback raises,
\* or the context is lost while the callback runs (flush then raises)
PaintModes == OnDrawModes \cup {"lost"}

VARIABLES
  variant,            \* which component this instance is
  phase,              \* "init" | "mounted" | "crashed" | "unmounted"
  canvasKit,          \* useCanvasKit() is non-null
  width, height,      \* props
  animate,            \* prop
  dpr,                \* window.devicePixelRatio
  engine,             \* what MakeCanvasSurface / MakeSWCanvasSurface do now
  onDraw,             \* what the current onDraw prop does when it is called
  interactionState,   \* useState<InteractionState>
  interactive,        \* prop of SkiaInteractiveCanvas
  capture,            \* the pointer ids the canvas element holds capture for
  down,               \* the pointers that went down on the canvas and are not up yet
  widget,             \* the component that renders the canvas and passes its callbacks
  surfaceRef,         \* surfaceRef.current (Null or a surface id)
  animationFrameRef,  \* animationFrameRef.current (Null or a frame id)
  canvasSize,         \* <<canvas.width, canvas.height>> of the element
  surfaces,           \* engine surfaces created for this canvas element
  pending,            \* pending requestAnimationFrame callbacks, oldest first
  cleanupFn,          \* the setup effect has returned its cleanup function
  lastOp,             \* the step taken last
  raised,             \* the last step let an error escape to the host
  acq,                \* constructor calls of the last step's setupSurface
  paints,             \* the draw() calls of the last step that reached the surface
  loopFailed,         \* a frame callback's paint failed and no surface was acquired since
  call,               \* the last application of normalizePointerEvent, with its inputs
  canvasKitInstance,  \* module variable of skia-provider: "none" or the cached engine
  canvasKitPromise,   \* module variable of skia-provider: "none" or the promise's state
  window,             \* the globals window.CanvasKit and window.CanvasKitInit exist
  script,             \* the canvaskit.js script element: "none" | "loading" | "loaded" | "error"
  initCall,           \* the CanvasKitInit call: "none" | "running" | "done" | "failed"
  started,            \* how many scripts were appended and CanvasKitInit calls made
  requesters,         \* per provider: its loadCanvasKit call and what it received
  imageCache,         \* module variable of primitives/image: url -> image id, or Null
  images,             \* the engine images created by MakeImageFromEncoded
  loads               \* per caller: its loadImage call and what it returned

vars == <<variant, phase, canvasKit, width, height, animate, dpr, engine,
          onDraw, interactionState, interactive, capture, down, widget, surfaceRef, animationFrameRef, canvasSize,
          surfaces, pending, cleanupFn, lastOp, raised, acq, paints,
          loopFailed, call, canvasKitInstance, canvasKitPromise, window,
          script, initCall, started, requesters, imageCache, images, loads>>

\* The module state of skia-provider and the globals it reads.
loaderVars == <<canvasKitInstance, canvasKitPromise, window, script, initCall,
                started, requesters>>

\* State outside the canvas component's refs, props and hooks.
\* The module state of primitives/image and its callers.
imageVars == <<imageCache, images, loads>>

libVars == <<call, loaderVars, imageVars>>

\* The canvas component's own state.
canvasVars == <<variant, phase, canvasKit, width, height, animate, dpr, engine,
                onDraw, interactionState, interactive, capture, down, widget, surfaceRef, animationFrameRef,
                canvasSize, surfaces, pending, cleanupFn, lastOp, raised, acq,
                paints, loopFailed>>

\* ------------------------------------------------------- interaction state
InitialInteractionState ==
  [isHovering |-> FALSE, isPressed |-> FALSE,
   pointerPosition |-> NoPosition, activePointerId |-> Null]

\* --------------------------------------------------------------- closures
\* What a `draw` callback captured when useCallback created it.
Closure(ck, w, h, an, is) ==
  [ck |-> ck, w |-> w, h |-> h, animate |-> an, istate |-> is]

\* SkiaCanvas.draw does not capture an interaction state.
DrawOf(v, ck, w, h, an, is) ==
  Closure(ck, w, h, an, IF v = "interactive" THEN is ELSE InitialInteractionState)

CurrentDraw == DrawOf(variant, canvasKit, width, height, animate, interactionState)

\* ---------------------------------------------------------------- machine
\* The log of a step: ran/hw/sw/hwOut/ok describe its setupSurface call (it got
\* past the readiness check, the constructor calls it made, what the hardware
\* constructor did, whether it returned a surface); release is what happened
\* to the surface the step released ("none", "deleted", "failed").
NoAcq ==
  [ran |-> FALSE, hw |-> 0, sw |-> 0, hwOut |-> "none", ok |-> FALSE,
   release |-> "none"]

\* ------------------------------------------------------ slider arithmetic
\* Numbers that need not be whole are fractions <<n, d>> with d > 0.
\* Math.round(n / d): the nearest integer, a half goes upwards.
Round(n, d) == (2 * n + d) \div (2 * d)

\* clamp(value, lo, hi) of utils/geometry
clamp(v, lo, hi) == IF v < lo THEN lo ELSE IF v > hi THEN hi ELSE v

\* roundToStep(value, step) for the value v[1] / v[2]:
\* Math.round(value / step) * step
roundToStep(v, step) ==
  IF step = 0 THEN v ELSE <<Round(v[1], v[2] * step) * step, 1>>

\* getValueFromPosition of a horizontal slider with props t, at x:
\* percent = clamp((x - thumbRadius) / (width - thumbRadius * 2), 0, 1),
\* rawValue = min + percent * (max - min), roundToStep(rawValue, step).
getValueFromPosition(t, x) ==
  LET len == t.width - t.thumbRadius * 2
      part == clamp(x - t.thumbRadius, 0, len)
  IN  roundToStep(<<t.min * len + part * (t.max - t.min), len>>, t.step)

\* ----------------------------------------------------------------- widgets
\* A canvas that no widget wraps: its pointer callbacks are absent.
NoWidget == [kind |-> "none"]

\* The callbacks a widget called during a step are logged from empty.
Quiet(w) == IF w.kind = "none" THEN w ELSE [w EXCEPT !.emitted = <<>>]

MathMin(a, b) == IF a < b THEN a ELSE b
MathMax(a, b) == IF a > b THEN a ELSE b
MathAbs(a) == IF a < 0 THEN -a ELSE a

\* onChange?.(v) of a controlled widget: the parent stores v and passes it
\* back as the value prop.  The call is logged with the thumb being dragged
\* and the value prop at the time of the call.
OnChange(w, v, thumb, via) ==
  [w EXCEPT !.emitted = Append(@, [cb |-> "onChange", value |-> v, thumb |-> thumb,
                                    via |-> via, prop |-> w.value]),
            !.value = v]

\* onChangeEnd?.(v)
OnChangeEnd(w, v, thumb, via) ==
  [w EXCEPT !.emitted = Append(@, [cb |-> "onChangeEnd", value |-> v, thumb |-> thumb,
                                    via |-> via, prop |-> w.value])]

\* keyToDirection and directionToValue for a horizontal widget: 1, -1, or 0
\* for a key that is no arrow.
KeyDelta(key) ==
  IF key \in {"ArrowRight", "ArrowUp"} THEN 1
  ELSE IF key \in {"ArrowLeft", "ArrowDown"} THEN -1 ELSE 0

\* SkiaSlider as constructed with the props t and value v:
\* useState(false), useRef(value).  (hoverValue only feeds the drawing.)
NewSlider(t, v) ==
  [kind |-> "slider", track |-> t, value |-> v, isDragging |-> FALSE,
   lastValueRef |-> v, emitted |-> <<>>]

sliderPointerDown(w, x, disabled) ==
  IF disabled THEN w
  ELSE LET newValue == getValueFromPosition(w.track, x)[1]
           w1 == [w EXCEPT !.isDragging = TRUE]
       IN  IF newValue # w.lastValueRef
           THEN OnChange([w1 EXCEPT !.lastValueRef = newValue], newValue, "none", "pointer")
           ELSE w1

sliderPointerMove(w, x, disabled) ==
  IF disabled THEN w
  ELSE LET newValue == getValueFromPosition(w.track, x)[1]
       IN  IF w.isDragging /\ newValue # w.lastValueRef
           THEN OnChange([w EXCEPT !.lastValueRef = newValue], newValue, "none", "pointer")
           ELSE w

sliderPointerUp(w) ==
  IF w.isDragging
  THEN OnChangeEnd([w EXCEPT !.isDragging = FALSE], w.lastValueRef, "none", "pointer")
  ELSE w

sliderKeyDown(w, key, disabled) ==
  IF disabled THEN w
  ELSE IF KeyDelta(key) # 0
  THEN LET newValue == clamp(w.value + KeyDelta(key) * w.track.step,
                             w.track.min, w.track.max)
       IN  IF newValue # w.value
           THEN OnChangeEnd(OnChange(w, newValue, "none", "key"), newValue, "none", "key")
           ELSE w
  ELSE IF key = "Home"
  THEN OnChangeEnd(OnChange(w, w.track.min, "none", "key"), w.track.min, "none", "key")
  ELSE IF key = "End"
  THEN OnChangeEnd(OnChange(w, w.track.max, "none", "key"), w.track.max, "none", "key")
  ELSE w

\* SkiaRangeSlider as constructed with the props t and value v = <<start, end>>:
\* isDragging false, activeThumb null, focusedThumb "start", useRef(value).
NewRange(t, v) ==
  [kind |-> "range", track |-> t, value |-> v, isDragging |-> FALSE,
   activeThumb |-> "none", focusedThumb |-> "start", lastValueRef |-> v,
   emitted |-> <<>>]

\* getThumbPosition(val) of a horizontal widget, as a fraction over max - min:
\* thumbRadius + (val - min) / (max - min) * (width - thumbRadius * 2)
getThumbPosition(t, val) ==
  <<t.thumbRadius * (t.max - t.min) + (val - t.min) * (t.width - t.thumbRadius * 2),
    t.max - t.min>>

\* distToStart <= distToEnd ? "start" : "end"
getNearestThumb(w, x) ==
  LET startPos == getThumbPosition(w.track, w.value[1])
      endPos == getThumbPosition(w.track, w.value[2])
      distToStart == MathAbs(x * startPos[2] - startPos[1])
      distToEnd == MathAbs(x * endPos[2] - endPos[1])
  IN  IF distToStart <= distToEnd THEN "start" ELSE "end"

\* The range with the thumb moved to newValue, the other thumb taken from r.
MoveThumb(t, thumb, newValue, r) ==
  IF thumb = "start"
  THEN <<MathMin(newValue, r[2] - t.minGap), r[2]>>
  ELSE <<r[1], MathMax(newValue, r[1] + t.minGap)>>

rangePointerDown(w, x, disabled) ==
  IF disabled THEN w
  ELSE LET thumb == getNearestThumb(w, x)
           w1 == [w EXCEPT !.activeThumb = thumb, !.focusedThumb = thumb,
                           !.isDragging = TRUE]
           newRange == MoveThumb(w.track, thumb, getValueFromPosition(w.track, x)[1],
                                 w.value)
       IN  IF newRange # w.value
           THEN OnChange([w1 EXCEPT !.lastValueRef = newRange], newRange, thumb, "pointer")
           ELSE w1

rangePointerMove(w, x, disabled) ==
  IF disabled \/ ~w.isDragging \/ w.activeThumb = "none" THEN w
  ELSE LET newRange == MoveThumb(w.track, w.activeThumb,
                                 getValueFromPosition(w.track, x)[1], w.lastValueRef)
       IN  IF newRange # w.lastValueRef
           THEN OnChange([w EXCEPT !.lastValueRef = newRange], newRange,
                         w.activeThumb, "pointer")
           ELSE w

rangePointerUp(w) ==
  IF w.isDragging
  THEN OnChangeEnd([w EXCEPT !.isDragging = FALSE, !.activeThumb = "none"],
                   w.lastValueRef, w.activeThumb, "pointer")
  ELSE w

rangeKeyDown(w, key, disabled) ==
  IF disabled \/ w.focusedThumb = "none" THEN w
  ELSE IF KeyDelta(key) # 0
  THEN LET delta == KeyDelta(key) * w.track.step
           newRange ==
             IF w.focusedThumb = "start"
             THEN <<clamp(w.value[1] + delta, w.track.min, w.value[2] - w.track.minGap),
                    w.value[2]>>
             ELSE <<w.value[1],
                    clamp(w.value[2] + delta, w.value[1] + w.track.minGap, w.track.max)>>
       IN  IF newRange # w.value
           THEN OnChangeEnd(OnChange(w, newRange, w.focusedThumb, "key"), newRange,
                            w.focusedThumb, "key")
           ELSE w
  ELSE IF key = "Tab"
  THEN [w EXCEPT !.focusedThumb = IF @ = "start" THEN "end" ELSE "start"]
  ELSE w

\* onPointerDown?.(normalized) and the other callbacks the canvas was given.
OnPointerDown(w, x, disabled) ==
  CASE w.kind = "slider" -> sliderPointerDown(w, x, disabled)
    [] w.kind = "range" -> rangePointerDown(w, x, disabled)
    [] OTHER -> w

OnPointerMove(w, x, disabled) ==
  CASE w.kind = "slider" -> sliderPointerMove(w, x, disabled)
    [] w.kind = "range" -> rangePointerMove(w, x, disabled)
    [] OTHER -> w

OnPointerUp(w) ==
  CASE w.kind = "slider" -> sliderPointerUp(w)
    [] w.kind = "range" -> rangePointerUp(w)
    [] OTHER -> w

OnKeyDown(w, key, disabled) ==
  CASE w.kind = "slider" -> sliderKeyDown(w, key, disabled)
    [] w.kind = "range" -> rangeKeyDown(w, key, disabled)
    [] OTHER -> w

\* The widget constructed anew with the value prop it has.
Remounted(w) ==
  CASE w.kind = "slider" -> NewSlider(w.track, w.value)
    [] w.kind = "range" -> NewRange(w.track, w.value)
    [] OTHER -> w

\* The props of the widgets that are mounted, and where their pointer goes.
WidgetTrack ==
  [min |-> 0, max |-> 4, step |-> 2, width |-> 4, thumbRadius |-> 1, minGap |-> 0]
DragXs == {1, 2, 3}
SliderValues == {0, 2, 4}
RangeValues == {r \in SliderValues \X SliderValues : r[1] <= r[2]}
Keys == {"ArrowRight", "ArrowLeft", "Tab", "Home"}

PositionsOf(w) == IF w.kind = "none" THEN Positions ELSE {<<x, 1>> : x \in DragXs}

ValuesOf(w) ==
  CASE w.kind = "slider" -> SliderValues
    [] w.kind = "range" -> RangeValues
    [] OTHER -> {}

\* The refs, the canvas element, the engine and the frame queue as one record,
\* so that the statements of a handler compose sequentially.
Machine ==
  [surfaceRef |-> surfaceRef, animationFrameRef |-> animationFrameRef,
   canvasSize |-> canvasSize, surfaces |-> surfaces, pending |-> pending,
   exc |-> FALSE, acq |-> NoAcq, paints |-> <<>>, handle |-> CurrentDraw,
   capture |-> capture, down |-> down, widget |-> Quiet(widget)]

\* try { ... } catch { }: the error stops here.
Catch(m) == [m EXCEPT !.exc = FALSE]

\* ----------------------------------------------------------------- engine
\* const dpr = window.devicePixelRatio || 1
EffectiveDpr(d) == IF d[1] = 0 THEN <<1, 1>> ELSE d

\* canvas.width = width * dpr: the product is stored in an unsigned long
\* attribute of the canvas element, which drops the fraction.
PhysicalSize(n, d) == (n * EffectiveDpr(d)[1]) \div EffectiveDpr(d)[2]

\* ceil(n * d), the size the design asks for
CeilSize(n, d) ==
  (n * EffectiveDpr(d)[1] + EffectiveDpr(d)[2] - 1) \div EffectiveDpr(d)[2]

FreshSurfaceId(m) ==
  CHOOSE i \in 1..(Cardinality(DOMAIN m.surfaces) + 2) :
    i \notin DOMAIN m.surfaces /\ i # m.surfaceRef

\* The engine hands out a new surface for the canvas element.
NewSurface(m, kind, w, h, d) ==
  LET id == FreshSurfaceId(m)
  IN [m EXCEPT !.surfaces =
        [i \in DOMAIN m.surfaces \cup {id} |->
           IF i = id
           THEN [state |-> "live", kind |-> kind, w |-> w, h |-> h, dpr |-> d,
                 saves |-> 0]
           ELSE m.surfaces[i]],
      !.surfaceRef = id]

LiveSurfaces(ss) == {i \in DOMAIN ss : ss[i].state = "live"}

\* surface.delete(): raises on a handle that is already invalid
DeleteSurface(m) ==
  LET s == m.surfaceRef
  IN IF s \in DOMAIN m.surfaces /\ m.surfaces[s].state = "live"
     THEN [m EXCEPT !.surfaces[s].state = "deleted", !.acq.release = "deleted"]
     ELSE [m EXCEPT !.exc = TRUE, !.acq.release = "failed"]

\* Bookkeeping only: surfaces that are gone and that nothing refers to any
\* more are dropped from the engine's table.
Forget(m) ==
  [m EXCEPT !.surfaces =
     [i \in {j \in DOMAIN m.surfaces :
               m.surfaces[j].state = "live" \/ j = m.surfaceRef} |-> m.surfaces[i]]]

\* ------------------------------------------------------- frame scheduling
FrameIds(q) == {q[i].id : i \in 1..Len(q)}

FreshFrameId(m) ==
  CHOOSE i \in 1..(Len(m.pending) + 2) :
    i \notin FrameIds(m.pending) /\ i # m.animationFrameRef

\* animationFrameRef.current = requestAnimationFrame(draw)
RequestFrame(m, cl) ==
  LET id == FreshFrameId(m)
  IN [m EXCEPT !.pending = Append(@, [id |-> id, draw |-> cl]),
               !.animationFrameRef = id]

\* cancelAnimationFrame(id)
CancelFrame(m, id) ==
  [m EXCEPT !.pending = SelectSeq(@, LAMBDA t : t.id # id)]

\* ------------------------------------------------------------ release code
\* A release that forgets the handle without calling delete().
ReleaseSurfaceLeaks(m) ==
  IF m.surfaceRef = Null THEN m ELSE [m EXCEPT !.surfaceRef = Null]

\* A release that calls delete() and keeps the handle in the ref.
ReleaseSurfaceKeepsHandle(m) ==
  IF m.exc \/ m.surfaceRef = Null THEN m ELSE Catch(DeleteSurface(m))

\* SkiaInteractiveCanvas: if (surfaceRef.current) { try { delete() } catch {}
\*                          surfaceRef.current = null }
ReleaseSurface_I(m) ==
  IF m.exc \/ m.surfaceRef = Null THEN m
  ELSE [Catch(DeleteSurface(m)) EXCEPT !.surfaceRef = Null]

\* SkiaCanvas: if (surfaceRef.current) { delete(); surfaceRef.current = null }
ReleaseSurface_P(m) ==
  IF m.exc \/ m.surfaceRef = Null THEN m
  ELSE LET m1 == DeleteSurface(m)
       IN IF m1.exc THEN m1 ELSE [m1 EXCEPT !.surfaceRef = Null]

ReleaseSurface(v, m) ==
  IF v = "interactive" THEN ReleaseSurface_I(m) ELSE ReleaseSurface_P(m)

\* ------------------------------------------------------------ setupSurface
\* The canvas element is rendered (and canvasRef.current set) only once the
\* engine handle is there; until then the component renders a placeholder.
CanvasElement(ck) == ck

\* A guard that lets setupSurface run without an engine handle.
NotReadyNever(ck) == FALSE

\* if (!canvasKit || !canvasRef.current) return null
NotReady(ck) == ~ck \/ ~CanvasElement(ck)

\* One call of MakeSWCanvasSurface inside try/catch: `a` is the state of the
\* local variable `surface` and of the function (ret: it has returned null).
TrySoftware(a, out) ==
  IF out = "raise" THEN [a EXCEPT !.sw = @ + 1, !.ret = TRUE]
  ELSE [a EXCEPT !.sw = @ + 1, !.res = IF out = "ok" THEN "sw" ELSE "none"]

\* SkiaInteractiveCanvas.setupSurface. in.hw is what MakeCanvasSurface does,
\* in.sw1 and in.sw2 what the first and the second MakeSWCanvasSurface call do.
SetupSurface_I(m, ck, w, h, d, in) ==
  IF m.exc \/ NotReady(ck) THEN m
  ELSE LET m1 == ReleaseSurface_I(m)
           m2 == [m1 EXCEPT !.canvasSize = <<PhysicalSize(w, d), PhysicalSize(h, d)>>]
           a0 == [res |-> IF in.hw = "ok" THEN "hw" ELSE "none", sw |-> 0, ret |-> FALSE]
           \* try { MakeCanvasSurface } catch { try { MakeSWCanvasSurface } catch { return null } }
           a1 == IF in.hw = "raise" THEN TrySoftware(a0, in.sw1) ELSE a0
           \* if (!surface) { try { MakeSWCanvasSurface } catch { return null } }
           a2 == IF ~a1.ret /\ a1.res = "none"
                 THEN TrySoftware(a1, IF a1.sw = 0 THEN in.sw1 ELSE in.sw2)
                 ELSE a1
           ok == ~a2.ret /\ a2.res # "none"
           log == [m2.acq EXCEPT !.ran = TRUE, !.hw = 1, !.sw = a2.sw,
                                 !.hwOut = in.hw, !.ok = ok]
       IN IF ok THEN [NewSurface(m2, a2.res, w, h, d) EXCEPT !.acq = log]
          ELSE [m2 EXCEPT !.acq = log]

\* SkiaCanvas.setupSurface: no try/catch and no software attempt.
SetupSurface_P(m, ck, w, h, d, in) ==
  IF m.exc \/ NotReady(ck) THEN m
  ELSE LET m1 == ReleaseSurface_P(m)
           m2 == [m1 EXCEPT !.canvasSize = <<PhysicalSize(w, d), PhysicalSize(h, d)>>]
           log == [m2.acq EXCEPT !.ran = TRUE, !.hw = 1, !.hwOut = in.hw,
                                 !.ok = in.hw = "ok"]
       IN IF m1.exc THEN m1
          ELSE CASE in.hw = "ok" -> [NewSurface(m2, "hw", w, h, d) EXCEPT !.acq = log]
                 [] in.hw = "null" -> [m2 EXCEPT !.acq = log]
                 [] OTHER -> [m2 EXCEPT !.acq = log, !.exc = TRUE]

SetupSurface(v, m, ck, w, h, d, in) ==
  IF v = "interactive" THEN SetupSurface_I(m, ck, w, h, d, in)
  ELSE SetupSurface_P(m, ck, w, h, d, in)

\* -------------------------------------------------------------------- draw
\* if (animate) animationFrameRef.current = requestAnimationFrame(draw)
ContinueLoop(m, cl) ==
  IF cl.animate
  THEN [RequestFrame(m, cl) EXCEPT !.paints[Len(m.paints)].scheduled = TRUE]
  ELSE m

\* if (!canvasKit || !surfaceRef.current) return
DrawSkips(m, cl) == ~cl.ck \/ m.surfaceRef = Null

\* A body of draw that flushes before it calls the callback.
PaintStepsFlushFirst(mode) ==
  IF mode = "cbRaise" THEN <<"save", "scale", "flush", "callback">>
  ELSE <<"save", "scale", "flush", "callback", "restore">>

\* The calls draw makes on the canvas and the surface after getCanvas, in
\* program order, up to and including the one that raises.
PaintSteps(mode) ==
  IF mode = "cbRaise" THEN <<"save", "scale", "callback">>
  ELSE <<"save", "scale", "callback", "restore", "flush">>

\* getCanvas, save, scale(dpr, dpr), the draw callback, restore, flush, with
\* a callback that does not call back into the component.  The paint is
\* logged with what the callback was given, which surface it drew on and
\* which call raised;
\* depth is the number of save() calls in effect while the callback runs.
\* A callback that raises leaves the save() without its restore().
PaintOnce(m, cl, d, mode, nested) ==
  LET s == m.surfaceRef
      sf == m.surfaces[s]
      entry(called, flushed) ==
        [w |-> cl.w, h |-> cl.h, istate |-> cl.istate, surface |-> s,
         state |-> sf.state, built |-> <<sf.w, sf.h>>, bufDpr |-> sf.dpr,
         scale |-> EffectiveDpr(d), called |-> called, flushed |-> flushed,
         scheduled |-> FALSE,
         steps |-> IF called THEN PaintSteps(mode) ELSE <<>>,
         thrown |-> IF ~called THEN "getCanvas"
                    ELSE IF mode = "ok" THEN "none"
                    ELSE IF mode = "cbRaise" THEN "callback" ELSE "flush",
         depth |-> sf.saves + 1, nested |-> nested]
  IN IF sf.state # "live"
     THEN [m EXCEPT !.exc = TRUE, !.paints = Append(@, entry(FALSE, FALSE))]
     ELSE CASE mode = "ok" ->
                 [m EXCEPT !.paints = Append(@, entry(TRUE, TRUE))]
            [] mode = "cbRaise" ->
                 [m EXCEPT !.exc = TRUE, !.surfaces[s].saves = @ + 1,
                           !.paints = Append(@, entry(TRUE, FALSE))]
            [] OTHER ->
                 [m EXCEPT !.exc = TRUE, !.surfaces[s].state = "invalid",
                           !.paints = Append(@, entry(TRUE, FALSE))]

\* The draw callback calls ref.current.redraw() while it runs, between the
\* save() and the restore() of the paint that called it:
\* if (surfaceRef.current) draw(), with the draw of the last commit.
RedrawFromCallback(m, d) ==
  LET s == m.surfaceRef
      m1 == PaintOnce([m EXCEPT !.surfaces[s].saves = @ + 1], m.handle, d, "ok", TRUE)
      m2 == IF DrawSkips(m, m.handle) THEN m
            ELSE IF m1.exc THEN Catch(m1) ELSE ContinueLoop(m1, m.handle)
  IN [m2 EXCEPT !.surfaces[s].saves = m.surfaces[s].saves]

\* One pass through the body of draw.  With "cbRedraw" the callback calls
\* redraw() on the component's handle once and then returns.
PaintBody(m, cl, d, mode) ==
  IF mode = "cbRedraw" /\ m.surfaces[m.surfaceRef].state = "live"
  THEN PaintOnce(RedrawFromCallback(m, d), cl, d, "ok", FALSE)
  ELSE PaintOnce(m, cl, d, mode, FALSE)

\* SkiaInteractiveCanvas.draw: the body is inside try/catch, the catch returns.
Draw_I(m, cl, d, mode) ==
  IF m.exc \/ DrawSkips(m, cl) THEN m
  ELSE LET m1 == PaintBody(m, cl, d, mode)
       IN IF m1.exc THEN Catch(m1) ELSE ContinueLoop(m1, cl)

\* SkiaCanvas.draw: no try/catch.
Draw_P(m, cl, d, mode) ==
  IF m.exc \/ DrawSkips(m, cl) THEN m
  ELSE LET m1 == PaintBody(m, cl, d, mode)
       IN IF m1.exc THEN m1 ELSE ContinueLoop(m1, cl)

Draw(v, m, cl, d, mode) ==
  IF v = "interactive" THEN Draw_I(m, cl, d, mode) ELSE Draw_P(m, cl, d, mode)

\* ----------------------------------------------------------------- effects
\* The cleanup returned by the setup effect: cancel the frame the ref names,
\* then release the surface.
Cleanup(v, m) ==
  LET m1 == IF m.animationFrameRef # Null
            THEN [CancelFrame(m, m.animationFrameRef) EXCEPT !.animationFrameRef = Null]
            ELSE m
  IN ReleaseSurface(v, m1)

\* const surface = setupSurface(); if (surface) draw()
SetupEffect(v, m, cl, d, in) ==
  LET m1 == SetupSurface(v, m, cl.ck, cl.w, cl.h, d, in)
      created == ~m1.exc /\ m1.acq.ok
  IN IF created THEN Draw(v, m1, cl, d, in.mode1) ELSE m1

\* if (surfaceRef.current && !animate) draw()
RedrawEffect(v, m, cl, d, in) ==
  IF ~m.exc /\ m.surfaceRef # Null /\ ~cl.animate
  THEN Draw(v, m, cl, d, in.mode2)
  ELSE m

\* What the engine and the draw callback do during one step: the outcomes of
\* MakeCanvasSurface and of the first and second MakeSWCanvasSurface call, and
\* what happens in the paint of the setup effect and of the redraw effect.
\* Within one commit the engine and the callback behave as they currently do.
InputsOf(e, od) ==
  [hw |-> e[1], sw1 |-> e[2], sw2 |-> e[2], mode1 |-> od, mode2 |-> od]

\* A commit after which `cl` is the current draw callback.  drawChanged: the
\* dependencies of draw changed, so the setup effect is cleaned up and run
\* again; the redraw effect runs in every commit modelled here (draw is one
\* of its dependencies, as are onDraw, animate, isDark, interactionState).
\* An error leaving an effect ends the commit.
AfterCleanup(v, m, drawChanged, hasCleanup) ==
  IF drawChanged /\ hasCleanup THEN Cleanup(v, m) ELSE m

AfterSetup(v, m, cl, d, in, drawChanged, hasCleanup) ==
  LET m1 == AfterCleanup(v, m, drawChanged, hasCleanup)
  IN IF drawChanged /\ ~m1.exc THEN SetupEffect(v, m1, cl, d, in) ELSE m1

\* ------------------------------------------------------------------ steps
Store(m, op) ==
  /\ Len(m.pending) <= MaxPending
  /\ \A i \in DOMAIN m.surfaces : m.surfaces[i].saves <= MaxSaves
  /\ surfaceRef' = m.surfaceRef
  /\ animationFrameRef' = m.animationFrameRef
  /\ canvasSize' = m.canvasSize
  /\ surfaces' = m.surfaces
  /\ pending' = m.pending
  /\ raised' = m.exc
  /\ acq' = m.acq
  /\ paints' = m.paints
  /\ capture' = m.capture
  /\ down' = m.down
  /\ widget' = m.widget
  /\ interactive' = interactive
  /\ lastOp' = op
  /\ UNCHANGED libVars
  /\ loopFailed' = IF m.acq.ok \/ op = "mount" THEN FALSE
                   ELSE IF op = "tick" /\ m.paints # <<>> /\ ~m.paints[1].flushed THEN TRUE
                   ELSE loopFailed

\* A render whose new props, context and state are (ck, w, h, an, tf, is),
\* followed by its effects.
RenderFrom(op, m, hasCleanup, ck, w, h, an, od, is, drawChanged) ==
  \E in \in {InputsOf(engine, od)} :
    \E cl \in {DrawOf(variant, ck, w, h, an, is)} :
    \E m1 \in {AfterSetup(variant, [m EXCEPT !.handle = cl], cl, dpr, in,
                            drawChanged, hasCleanup)} :
    \E m2 \in {Forget(RedrawEffect(variant, m1, cl, dpr, in))} :
       /\ Store(m2, op)
       /\ canvasKit' = ck /\ width' = w /\ height' = h /\ animate' = an
       /\ onDraw' = od /\ interactionState' = is
       /\ cleanupFn' = IF drawChanged THEN ~m1.exc ELSE hasCleanup
       /\ phase' = IF m2.exc THEN "crashed" ELSE "mounted"
       /\ UNCHANGED <<variant, dpr, engine>>

Render(op, ck, w, h, an, od, is, drawChanged) ==
  RenderFrom(op, Machine, cleanupFn, ck, w, h, an, od, is, drawChanged)

\* No pointer event has been normalized yet.
NoCall == [applied |-> FALSE]

Providers == {1, 2}

\* A provider whose effect has not called loadCanvasKit.
IdleRequester == [state |-> "idle", on |-> "none", inFlight |-> FALSE, got |-> "none"]

\* let canvasKitInstance = null; let canvasKitPromise = null; nothing loaded.
LoaderIdle ==
  /\ canvasKitInstance = "none"
  /\ canvasKitPromise = "none"
  /\ script = "none"
  /\ initCall = "none"
  /\ started = [scripts |-> 0, inits |-> 0]
  /\ requesters = [p \in Providers |-> IdleRequester]

NoGlobals == [CanvasKit |-> FALSE, CanvasKitInit |-> FALSE]

Urls == {"a", "b"}
Loaders == {1, 2}

\* A caller that has no loadImage call under way.
IdleLoad == [state |-> "idle", url |-> "a", useCache |-> TRUE, got |-> Null]

\* const imageCache = new Map(); no image created yet.
ImagesIdle ==
  /\ imageCache = [u \in Urls |-> Null]
  /\ images = <<>>
  /\ loads = [c \in Loaders |-> IdleLoad]

LibInit == call = NoCall /\ LoaderIdle /\ window = NoGlobals /\ ImagesIdle

\* The component before its first commit, on a display whose pixel ratio is
\* one of `ratios`, rendered by the component w.
CanvasInitWith(ratios, w) ==
  /\ widget = w
  /\ variant \in Variants
  /\ phase = "init"
  /\ canvasKit \in BOOLEAN
  /\ \E s \in Sizes : width = s[1] /\ height = s[2]
  /\ animate \in BOOLEAN
  /\ dpr \in ratios
  /\ engine \in EngineModes
  /\ onDraw \in OnDrawModes
  /\ interactionState = InitialInteractionState
  /\ interactive = TRUE
  /\ capture = {}
  /\ down = {}
  /\ surfaceRef = Null
  /\ animationFrameRef = Null
  /\ canvasSize = <<0, 0>>
  /\ surfaces = <<>>
  /\ pending = <<>>
  /\ cleanupFn = FALSE
  /\ lastOp = "none"
  /\ raised = FALSE
  /\ acq = NoAcq
  /\ paints = <<>>
  /\ loopFailed = FALSE

\* The bare canvas before its first commit.
CanvasInit(ratios) == CanvasInitWith(ratios, NoWidget)

Init == CanvasInit(Dprs) /\ LibInit

\* A new component instance: new refs, a new canvas element, initial state.
FreshMachine ==
  [Machine EXCEPT !.surfaceRef = Null, !.animationFrameRef = Null,
                  !.canvasSize = <<0, 0>>, !.surfaces = <<>>,
                  !.capture = {}, !.down = {}, !.widget = Remounted(@)]

\* Frames left over from an unmounted instance act on that instance's refs
\* only, so a new instance is mounted here once they have run.
Mount ==
  /\ phase \in {"init", "unmounted"}
  /\ pending = <<>>
  /\ RenderFrom("mount", FreshMachine, FALSE, canvasKit, width, height, animate,
                onDraw, InitialInteractionState, TRUE)

Mounted == phase = "mounted"

\* width / height props change
Resize ==
  /\ Mounted
  /\ \E s \in Sizes :
       /\ s # <<width, height>>
       /\ Render("resize", canvasKit, s[1], s[2], animate, onDraw, interactionState, TRUE)

\* animate prop changes
SetAnimate ==
  /\ Mounted
  /\ Render("animate", canvasKit, width, height, ~animate, onDraw, interactionState, TRUE)

\* SkiaProvider: setCanvasKit(ck)
CanvasKitLoaded ==
  /\ Mounted /\ ~canvasKit
  /\ Render("canvasKit", TRUE, width, height, animate, onDraw, interactionState, TRUE)

\* SkiaProvider: setTypeface(typefaceInstance).  typeface is a dependency of
\* draw; the value itself is only handed on to the callback.
TypefaceLoaded ==
  /\ Mounted /\ canvasKit
  /\ Render("typeface", canvasKit, width, height, animate, onDraw, interactionState, TRUE)

\* useThemeObserver: setIsDark(newIsDark).  isDark is no dependency of draw, so
\* only the redraw effect runs.
ThemeChange ==
  /\ Mounted
  /\ Render("theme", canvasKit, width, height, animate, onDraw, interactionState, FALSE)

\* The parent passes a new onDraw: drawRef.current = onDraw, and only the
\* redraw effect runs.
OnDrawChange ==
  /\ Mounted
  /\ \E od \in OnDrawModes :
       Render("onDraw", canvasKit, width, height, animate, od, interactionState, FALSE)

\* The parent passes an onDraw that calls ref.current.redraw() when it runs.
OnDrawCallsRedraw ==
  /\ Mounted /\ variant = "interactive"
  /\ Render("onDraw", canvasKit, width, height, animate, "cbRedraw", interactionState,
            FALSE)

\* The window moves to a display with another pixel ratio: nothing re-renders.
DprChange ==
  /\ \E d \in Dprs : d # dpr /\ dpr' = d
  /\ lastOp' = "env" /\ raised' = FALSE /\ acq' = NoAcq /\ paints' = <<>>
  /\ UNCHANGED <<variant, phase, canvasKit, width, height, animate, engine, onDraw,
                 interactionState, surfaceRef, animationFrameRef, canvasSize,
                 surfaces, pending, cleanupFn, loopFailed, interactive,
                 capture, down, widget>>
  /\ UNCHANGED libVars

\* The constructors start to behave differently (the hardware context budget
\* is used up or freed by other canvases of the page).
EngineChange ==
  /\ \E e \in EngineModes : e # engine /\ engine' = e
  /\ lastOp' = "env" /\ raised' = FALSE /\ acq' = NoAcq /\ paints' = <<>>
  /\ UNCHANGED <<variant, phase, canvasKit, width, height, animate, dpr, onDraw,
                 interactionState, surfaceRef, animationFrameRef, canvasSize,
                 surfaces, pending, cleanupFn, loopFailed, interactive,
                 capture, down, widget>>
  /\ UNCHANGED libVars

\* The engine invalidates the live surface out of band (context lost).
LoseContext ==
  /\ surfaceRef # Null /\ surfaces[surfaceRef].state = "live"
  /\ surfaces' = [surfaces EXCEPT ![surfaceRef].state = "invalid"]
  /\ lastOp' = "env" /\ raised' = FALSE /\ acq' = NoAcq /\ paints' = <<>>
  /\ UNCHANGED <<variant, phase, canvasKit, width, height, animate, dpr, engine,
                 onDraw, interactionState, surfaceRef, animationFrameRef, canvasSize,
                 pending, cleanupFn, loopFailed, interactive, capture, down,
                 widget>>
  /\ UNCHANGED libVars

UnchangedProps ==
  UNCHANGED <<variant, canvasKit, width, height, animate, dpr, engine, onDraw,
              interactionState>>

\* The browser runs the oldest pending animation frame callback.  An error it
\* raises goes to the window, not to React.
Tick ==
  /\ pending # <<>>
  /\ \E mode \in {onDraw, "lost"} :
     \E m \in {Forget(Draw(variant, [Machine EXCEPT !.pending = Tail(pending)],
                           Head(pending).draw, dpr, mode))} :
       Store(m, "tick")
  /\ UNCHANGED <<phase, cleanupFn>>
  /\ UnchangedProps

\* ref.current.redraw(): if (surfaceRef.current) draw()
Redraw ==
  /\ Mounted /\ variant = "interactive"
  /\ \E mode \in {onDraw, "lost"} :
     \E m \in {Forget(IF surfaceRef # Null
                      THEN Draw(variant, Machine, CurrentDraw, dpr, mode)
                      ELSE Machine)} :
       Store(m, "redraw")
  /\ UNCHANGED <<phase, cleanupFn>>
  /\ UnchangedProps

\* Unmount: React calls the cleanup the setup effect returned, if it returned.
Teardown ==
  /\ phase \in {"mounted", "crashed"}
  /\ \E m \in {Forget(IF cleanupFn THEN Cleanup(variant, Machine) ELSE Machine)} :
       Store([m EXCEPT !.capture = {}, !.down = {}], "teardown")
  /\ phase' = "unmounted"
  /\ UNCHANGED cleanupFn
  /\ UnchangedProps

\* The same cleanup function called once more.
TeardownAgain ==
  /\ phase = "unmounted" /\ cleanupFn
  /\ \E m \in {Forget(Cleanup(variant, Machine))} : Store(m, "teardownAgain")
  /\ UNCHANGED <<phase, cleanupFn>>
  /\ UnchangedProps

\* -------------------------------------------------------- pointer handlers
\* The canvas element receives pointer events once it is rendered.  Every
\* handler passes setInteractionState a new object, so draw is re-created
\* and the commit that follows re-runs the setup effect.
CanHandlePointer == Mounted /\ variant = "interactive" /\ CanvasElement(canvasKit)

PointerCommit(op, m, is) ==
  /\ interactive
  /\ RenderFrom(op, m, cleanupFn, canvasKit, width, height, animate, onDraw, is, TRUE)

\* A step after which nothing is rendered again.
NoCommit(op, m) ==
  /\ Store(m, op)
  /\ UNCHANGED <<phase, cleanupFn>>
  /\ UnchangedProps

\* if (!interactive || !canvasRef.current) return: the event is delivered and
\* the handler does nothing.
PointerIgnored(op, m) == ~interactive /\ NoCommit(op, m)

\* canvasRef.current.setPointerCapture(e.pointerId)
setPointerCapture(c, id) == c \cup {id}

\* if (hasPointerCapture(e.pointerId)) releasePointerCapture(e.pointerId)
releasePointerCapture(c, id) == IF id \in c THEN c \ {id} ELSE c

\* After it has dispatched pointerup or pointercancel the browser clears the
\* capture of that pointer, whatever the handler did.
ImplicitRelease(c, id) == c \ {id}

handlePointerDownOf(id) ==
  /\ CanHandlePointer
  /\ id \notin down
  /\ \E pos \in PositionsOf(widget) :
       \/ PointerCommit("pointerDown",
            [Machine EXCEPT !.capture = setPointerCapture(@, id), !.down = @ \cup {id},
                            !.widget = OnPointerDown(@, pos[1], ~interactive)],
            [interactionState EXCEPT !.isPressed = TRUE, !.pointerPosition = pos,
                                     !.activePointerId = id])
       \/ PointerIgnored("pointerDown", [Machine EXCEPT !.down = @ \cup {id}])

handlePointerDown == \E id \in PointerIds : handlePointerDownOf(id)

handlePointerMove ==
  /\ CanHandlePointer
  /\ \E pos \in PositionsOf(widget) :
       \/ PointerCommit("pointerMove",
            [Machine EXCEPT !.widget = OnPointerMove(@, pos[1], ~interactive)],
            [interactionState EXCEPT !.isHovering = TRUE, !.pointerPosition = pos])
       \/ PointerIgnored("pointerMove", Machine)

\* onPointerUp and onPointerCancel
handlePointerUpOf(id) ==
  /\ CanHandlePointer
  /\ \/ PointerCommit("pointerUp",
          [Machine EXCEPT
             !.capture = ImplicitRelease(releasePointerCapture(@, id), id),
             !.down = @ \ {id}, !.widget = OnPointerUp(@)],
          [interactionState EXCEPT !.isPressed = FALSE, !.activePointerId = Null])
     \/ PointerIgnored("pointerUp",
          [Machine EXCEPT !.capture = ImplicitRelease(@, id), !.down = @ \ {id}])

handlePointerUp == \E id \in PointerIds : handlePointerUpOf(id)

handlePointerLeave ==
  /\ CanHandlePointer
  /\ \/ PointerCommit("pointerLeave", Machine,
          [interactionState EXCEPT !.isHovering = FALSE, !.pointerPosition = NoPosition])
     \/ PointerIgnored("pointerLeave", Machine)

\* onKeyDown of the element a widget wraps its canvas in.  A widget that
\* changed renders again and passes the canvas another onDraw.
KeyDown ==
  /\ Mounted /\ widget.kind # "none"
  /\ \E key \in Keys :
     \E w \in {OnKeyDown(Quiet(widget), key, ~interactive)} :
       IF w # Quiet(widget)
       THEN RenderFrom("key", [Machine EXCEPT !.widget = w], cleanupFn, canvasKit,
                       width, height, animate, onDraw, interactionState, FALSE)
       ELSE NoCommit("key", Machine)

\* The parent passes the widget another value.
ValueChange ==
  /\ Mounted /\ widget.kind # "none"
  /\ \E v \in ValuesOf(widget) :
       /\ v # widget.value
       /\ RenderFrom("value", [Machine EXCEPT !.widget.value = v], cleanupFn, canvasKit,
                     width, height, animate, onDraw, interactionState, FALSE)

\* The parent changes the interactive prop (a widget passes !disabled): the
\* handlers are re-created, no effect has it as a dependency.
InteractiveChange ==
  /\ Mounted /\ variant = "interactive"
  /\ interactive' = ~interactive
  /\ lastOp' = "interactive" /\ raised' = FALSE /\ acq' = NoAcq /\ paints' = <<>>
  /\ UNCHANGED <<variant, phase, canvasKit, width, height, animate, dpr, engine,
                 onDraw, interactionState, surfaceRef, animationFrameRef, canvasSize,
                 surfaces, pending, cleanupFn, loopFailed, capture, down>>
  /\ widget' = Quiet(widget)
  /\ UNCHANGED libVars

\* ------------------------------------------------------------ specification
\* The lifecycle of either component: every way a surface is acquired,
\* painted and released.  (A pointer handler's commit acts on the refs as
\* TypefaceLoaded does; the pointer handlers are in NextPointer.)
Next ==
  \/ Mount
  \/ Resize
  \/ SetAnimate
  \/ CanvasKitLoaded
  \/ TypefaceLoaded
  \/ ThemeChange
  \/ OnDrawChange
  \/ EngineChange
  \/ LoseContext
  \/ Tick
  \/ Redraw
  \/ Teardown
  \/ TeardownAgain

Spec == Init /\ [][Next]_vars

\* The interactive component under the events of one pointer, with the size
\* and the pixel ratio it was mounted with.
InitPointer ==
  Init /\ variant = "interactive" /\ <<width, height>> = <<3, 2>> /\ dpr = <<1, 1>>

NextPointer ==
  \/ Mount
  \/ CanvasKitLoaded
  \/ OnDrawChange
  \/ LoseContext
  \/ Tick
  \/ Redraw
  \/ Teardown
  \/ handlePointerDownOf(1)
  \/ handlePointerMove
  \/ handlePointerUpOf(1)
  \/ handlePointerLeave

SpecPointer == InitPointer /\ [][NextPointer]_vars

\* ------------------------------------------------------------------ frames
\* The browser reaches an animation frame for which no callback is pending.
FrameBoundary ==
  /\ Mounted /\ pending = <<>>
  /\ lastOp' = "frame" /\ raised' = FALSE /\ acq' = NoAcq /\ paints' = <<>>
  /\ UNCHANGED <<variant, phase, canvasKit, width, height, animate, dpr, engine,
                 onDraw, interactionState, surfaceRef, animationFrameRef, canvasSize,
                 surfaces, pending, cleanupFn, loopFailed, interactive,
                 capture, down, widget>>
  /\ UNCHANGED libVars

\* The interactive canvas with its input changes and the browser's frames.
NextCoalesce ==
  \/ Mount
  \/ ThemeChange
  \/ OnDrawChange
  \/ handlePointerDown
  \/ handlePointerMove
  \/ handlePointerUp
  \/ handlePointerLeave
  \/ Tick
  \/ FrameBoundary
  \/ Teardown

SpecCoalesce == InitPointer /\ [][NextCoalesce]_vars

\* ------------------------------------------------------- pointer capture
\* A canvas whose engine works and whose callback returns, under pointer
\* events and changes of the interactive prop.
InitCapture ==
  /\ Init /\ variant = "interactive"
  /\ canvasKit /\ engine = <<"ok", "ok">> /\ onDraw = "ok" /\ dpr = <<1, 1>>

NextCapture ==
  \/ Mount
  \/ InteractiveChange
  \/ handlePointerDown
  \/ handlePointerMove
  \/ handlePointerUp
  \/ handlePointerLeave
  \/ Tick
  \/ Teardown

SpecCapture == InitCapture /\ [][NextCapture]_vars

\* ------------------------------------------------------------ the widgets
\* A widget on its canvas, with an engine that works.
WidgetInit(w) ==
  /\ CanvasInitWith({<<1, 1>>}, w) /\ LibInit
  /\ variant = "interactive" /\ canvasKit /\ ~animate
  /\ <<width, height>> = <<4, 3>>
  /\ engine = <<"ok", "ok">> /\ onDraw = "ok"

NextWidget ==
  \/ Mount
  \/ InteractiveChange
  \/ handlePointerDownOf(1)
  \/ handlePointerMove
  \/ handlePointerUpOf(1)
  \/ handlePointerLeave
  \/ KeyDown
  \/ ValueChange
  \/ Teardown

InitSlider == \E v \in SliderValues : WidgetInit(NewSlider(WidgetTrack, v))

SpecSlider == InitSlider /\ [][NextWidget]_vars

InitRange == \E v \in RangeValues : WidgetInit(NewRange(WidgetTrack, v))

SpecRange == InitRange /\ [][NextWidget]_vars

\* ------------------------------------------------------ re-entrant redraw
InitReentrant ==
  /\ Init /\ variant = "interactive"
  /\ canvasKit /\ engine = <<"ok", "ok">> /\ dpr = <<1, 1>>

NextReentrant ==
  \/ Mount
  \/ SetAnimate
  \/ OnDrawChange
  \/ OnDrawCallsRedraw
  \/ ThemeChange
  \/ Tick
  \/ Redraw
  \/ Teardown

SpecReentrant == InitReentrant /\ [][NextReentrant]_vars

\* ------------------------------------------------------ pixel ratio changes
\* A canvas whose engine works, on a display whose pixel ratio can change.
InitDpr ==
  /\ Init
  /\ canvasKit /\ engine = <<"ok", "ok">> /\ onDraw = "ok"

NextDpr ==
  \/ Mount
  \/ Resize
  \/ ThemeChange
  \/ DprChange
  \/ Tick
  \/ Redraw
  \/ Teardown

SpecDpr == InitDpr /\ [][NextDpr]_vars

\* ---------------------------------------------------- normalizePointerEvent
\* JavaScript numbers are modelled as exact fractions <<numerator,
\* denominator>> in lowest terms with a positive denominator.
RECURSIVE GCD(_, _)
GCD(a, b) == IF b = 0 THEN a ELSE GCD(b, a % b)

Abs(n) == IF n < 0 THEN -n ELSE n

Ratio(n, d) ==
  LET g == GCD(Abs(n), Abs(d))
      s == IF d < 0 THEN -1 ELSE 1
  IN  <<(s * n) \div g, (s * d) \div g>>

ClientXs == {20, 21, 70, 120}
ClientYs == {10, 80}
RectOrigins == {<<0, 0>>, <<20, 10>>}
NormalizeDprs == Dprs \cup {<<2, 1>>}

\* The conversion without the division by the pixel ratio.
normalizeWithoutDpr(e, canvas, d) ==
  [x |-> Ratio((e.clientX - canvas.rect.left) * canvas.width, canvas.rect.width),
   y |-> Ratio((e.clientY - canvas.rect.top) * canvas.height, canvas.rect.height)]

\* x: (e.clientX - rect.left) * (canvas.width / rect.width) / dpr, y alike,
\* with dpr = window.devicePixelRatio || 1.
normalizePointerEvent(e, canvas, d) ==
  LET r == EffectiveDpr(d)
  IN  [x |-> Ratio((e.clientX - canvas.rect.left) * canvas.width * r[2],
                   canvas.rect.width * r[1]),
       y |-> Ratio((e.clientY - canvas.rect.top) * canvas.height * r[2],
                   canvas.rect.height * r[1])]

\* The canvas element as a pointer handler sees it: the buffer size that
\* setupSurface assigned and the bounding box that style {width, height}
\* gives it, at some place of the viewport.
CanvasAt(origin) ==
  [width |-> canvasSize[1], height |-> canvasSize[2],
   rect |-> [left |-> origin[1], top |-> origin[2],
             width |-> width, height |-> height]]

\* A pointer handler normalizes the event it received.
NormalizePointer ==
  /\ CanHandlePointer
  /\ \E cx \in ClientXs, cy \in ClientYs, o \in RectOrigins :
       \E e \in {[clientX |-> cx, clientY |-> cy]} :
         call' = [applied |-> TRUE, e |-> e, canvas |-> CanvasAt(o),
                  dpr |-> dpr, logical |-> <<width, height>>,
                  out |-> normalizePointerEvent(e, CanvasAt(o), dpr)]
  /\ UNCHANGED <<canvasVars, loaderVars, imageVars>>

InitNormalize ==
  /\ CanvasInit(NormalizeDprs) /\ LibInit
  /\ variant = "interactive" /\ canvasKit /\ ~animate
  /\ engine = <<"ok", "ok">> /\ onDraw = "ok"

NextNormalize ==
  \/ Mount
  \/ Resize
  \/ NormalizePointer
  \/ Teardown

SpecNormalize == InitNormalize /\ [][NextNormalize]_vars

\* ------------------------------------------------------------ loadCanvasKit
\* window.CanvasKit is there and has a MakeSurface function.
detectExistingCanvasKit == IF window.CanvasKit THEN "global" ELSE "none"

\* A provider's call is recorded with what loadCanvasKit returned to it and
\* whether an initialization was in flight when it called.
Requested(p, ret) ==
  requesters' = [requesters EXCEPT ![p] =
                   [state |-> "waiting", on |-> ret,
                    inFlight |-> canvasKitPromise = "pending", got |-> "none"]]

\* The body of loadCanvasKit, which runs without interruption: the cached
\* instance, else an existing global engine, else the promise in progress,
\* else a new promise whose executor calls CanvasKitInit or appends the
\* script element.
loadCanvasKit(p) ==
  /\ requesters[p].state # "waiting"
  /\ IF canvasKitInstance # "none" THEN
       /\ Requested(p, canvasKitInstance)
       /\ UNCHANGED <<canvasKitInstance, canvasKitPromise, script, initCall, started>>
     ELSE IF detectExistingCanvasKit # "none" THEN
       /\ canvasKitInstance' = detectExistingCanvasKit
       /\ Requested(p, detectExistingCanvasKit)
       /\ UNCHANGED <<canvasKitPromise, script, initCall, started>>
     ELSE IF canvasKitPromise # "none" THEN
       /\ Requested(p, "promise")
       /\ UNCHANGED <<canvasKitInstance, canvasKitPromise, script, initCall, started>>
     ELSE
       /\ canvasKitPromise' = "pending"
       /\ IF window.CanvasKitInit
            THEN /\ initCall' = "running"
                 /\ started' = [started EXCEPT !.inits = @ + 1]
                 /\ UNCHANGED script
            ELSE /\ script' = "loading"
                 /\ started' = [started EXCEPT !.scripts = @ + 1]
                 /\ UNCHANGED initCall
       /\ Requested(p, "promise")
       /\ UNCHANGED canvasKitInstance
  /\ UNCHANGED <<window, call, canvasVars, imageVars>>

LoadCanvasKit == \E p \in Providers : loadCanvasKit(p)

\* script.onload: CanvasKitInit is called if the script defined it, else
\* the promise is rejected.
ScriptLoaded ==
  /\ script = "loading"
  /\ script' = "loaded"
  /\ \E found \in BOOLEAN :
       /\ window' = [window EXCEPT !.CanvasKitInit = found]
       /\ IF found
            THEN /\ initCall' = "running"
                 /\ started' = [started EXCEPT !.inits = @ + 1]
                 /\ UNCHANGED canvasKitPromise
            ELSE /\ canvasKitPromise' = "rejected"
                 /\ UNCHANGED <<initCall, started>>
  /\ UNCHANGED <<canvasKitInstance, requesters, call, canvasVars, imageVars>>

\* script.onerror
ScriptError ==
  /\ script = "loading"
  /\ script' = "error"
  /\ canvasKitPromise' = "rejected"
  /\ UNCHANGED <<canvasKitInstance, window, initCall, started, requesters, call,
                 canvasVars, imageVars>>

\* init(...).then((ck) => { canvasKitInstance = ck; resolve(ck) })
InitResolves ==
  /\ initCall = "running"
  /\ initCall' = "done"
  /\ canvasKitInstance' = "loaded"
  /\ canvasKitPromise' = "resolved"
  /\ UNCHANGED <<window, script, started, requesters, call, canvasVars, imageVars>>

\* init(...).catch(reject)
InitRejects ==
  /\ initCall = "running"
  /\ initCall' = "failed"
  /\ canvasKitPromise' = "rejected"
  /\ UNCHANGED <<canvasKitInstance, window, script, started, requesters, call,
                 canvasVars, imageVars>>

\* The provider's .then / .catch handler runs with the outcome of its call.
Deliver ==
  \E p \in Providers :
    /\ requesters[p].state = "waiting"
    /\ requesters[p].on = "promise" => canvasKitPromise \in {"resolved", "rejected"}
    /\ \E r \in {requesters[p]} :
         requesters' = [requesters EXCEPT ![p] =
           IF r.on # "promise" THEN [r EXCEPT !.state = "ready", !.got = r.on]
           ELSE IF canvasKitPromise = "resolved"
             THEN [r EXCEPT !.state = "ready", !.got = "loaded"]
             ELSE [r EXCEPT !.state = "error"]]
    /\ UNCHANGED <<canvasKitInstance, canvasKitPromise, window, script, initCall,
                   started, call, canvasVars, imageVars>>

\* Another library of the page publishes its engine as window.CanvasKit.
GlobalAppears ==
  /\ ~window.CanvasKit
  /\ window' = [window EXCEPT !.CanvasKit = TRUE]
  /\ UNCHANGED <<canvasKitInstance, canvasKitPromise, script, initCall, started,
                 requesters, call, canvasVars, imageVars>>

\* One canvas that is not mounted and has no engine handle yet.
CanvasIdle ==
  /\ CanvasInit(Dprs)
  /\ variant = "interactive" /\ ~canvasKit /\ ~animate
  /\ <<width, height>> = <<3, 2>> /\ dpr = <<1, 1>>
  /\ engine = <<"ok", "ok">> /\ onDraw = "ok"

InitLoader ==
  /\ CanvasIdle /\ call = NoCall
  /\ LoaderIdle /\ ImagesIdle
  /\ window \in [CanvasKit : BOOLEAN, CanvasKitInit : BOOLEAN]

NextLoader ==
  \/ LoadCanvasKit
  \/ ScriptLoaded
  \/ ScriptError
  \/ InitResolves
  \/ InitRejects
  \/ Deliver
  \/ GlobalAppears

SpecLoader == InitLoader /\ [][NextLoader]_vars

\* ---------------------------------------------------------------- loadImage
MaxImages == 3

\* loadImage up to its first await: with caching, a cached image is
\* returned; otherwise fetch(url) is under way.
LoadImageStart ==
  \E c \in Loaders, u \in Urls, uc \in BOOLEAN :
    /\ loads[c].state \in {"idle", "done"}
    /\ loads' = [loads EXCEPT ![c] =
         IF uc /\ imageCache[u] # Null
         THEN [state |-> "done", url |-> u, useCache |-> uc, got |-> imageCache[u]]
         ELSE [state |-> "fetching", url |-> u, useCache |-> uc, got |-> Null]]
    /\ UNCHANGED <<imageCache, images, call, canvasVars, loaderVars>>

\* await fetch(url): a response that is ok, one that is not (null is
\* returned), or a rejection (caught, null is returned).
FetchResponds ==
  \E c \in Loaders, out \in {"ok", "notOk", "raise"} :
    /\ loads[c].state = "fetching"
    /\ loads' = [loads EXCEPT ![c].state = IF out = "ok" THEN "buffering" ELSE "done"]
    /\ UNCHANGED <<imageCache, images, call, canvasVars, loaderVars>>

\* await response.arrayBuffer(), then MakeImageFromEncoded: an image, null,
\* or an error (caught, null is returned).  An image made by a caching call
\* is put into the cache under its url, replacing what is there.
Decode ==
  \E c \in Loaders, out \in {"image", "null", "raise"} :
    /\ loads[c].state = "buffering"
    /\ IF out = "image"
         THEN /\ Len(images) < MaxImages
              /\ images' = Append(images, [url |-> loads[c].url, state |-> "live",
                                            caching |-> loads[c].useCache])
              /\ imageCache' = IF loads[c].useCache
                                 THEN [imageCache EXCEPT ![loads[c].url] = Len(images) + 1]
                                 ELSE imageCache
              /\ loads' = [loads EXCEPT ![c].state = "done", ![c].got = Len(images) + 1]
         ELSE /\ loads' = [loads EXCEPT ![c].state = "done"]
              /\ UNCHANGED <<imageCache, images>>
    /\ UNCHANGED <<call, canvasVars, loaderVars>>

\* removeFromCache(url): the cached image is deleted and its entry removed.
removeFromCache ==
  \E u \in Urls :
    /\ imageCache[u] # Null
    /\ images' = [images EXCEPT ![imageCache[u]].state = "deleted"]
    /\ imageCache' = [imageCache EXCEPT ![u] = Null]
    /\ UNCHANGED <<loads, call, canvasVars, loaderVars>>

\* clearImageCache(): every cached image is deleted, the map is cleared.
clearImageCache ==
  /\ \E u \in Urls : imageCache[u] # Null
  /\ images' = [i \in DOMAIN images |->
                  IF \E u \in Urls : imageCache[u] = i
                  THEN [images[i] EXCEPT !.state = "deleted"] ELSE images[i]]
  /\ imageCache' = [u \in Urls |-> Null]
  /\ UNCHANGED <<loads, call, canvasVars, loaderVars>>

InitImages ==
  /\ CanvasIdle /\ call = NoCall
  /\ LoaderIdle /\ window = NoGlobals
  /\ ImagesIdle

NextImages ==
  \/ LoadImageStart
  \/ FetchResponds
  \/ Decode
  \/ removeFromCache
  \/ clearImageCache

SpecImages == InitImages /\ [][NextImages]_vars

\* ------------------------------------------------------ slider arithmetic
\* Slider props and pointer positions.
Mins == {-3, 0, 1, 5}
Spans == {1, 4, 7, 10}
Steps == {1, 2, 3, 4}
ThumbRadii == {2}
TrackWidths == {8, 14}
TrackXs == {-1, 2, 3, 5, 7, 8, 12, 15}

Tracks ==
  {[min |-> lo, max |-> lo + sp, step |-> st, width |-> wd, thumbRadius |-> r] :
     lo \in Mins, sp \in Spans, st \in Steps, wd \in TrackWidths, r \in ThumbRadii}

\* A slider handler converts the position of the event it received.
GetValue ==
  /\ \E tr \in Tracks, x \in TrackXs :
       call' = [applied |-> TRUE, track |-> tr, x |-> x,
                value |-> getValueFromPosition(tr, x)]
  /\ UNCHANGED <<canvasVars, loaderVars, imageVars>>

InitValue == CanvasIdle /\ LibInit

NextValue == GetValue

SpecValue == InitValue /\ [][NextValue]_vars

\* ================================================================= claims
Commits == {"mount", "resize", "animate", "canvasKit", "typeface", "theme",
            "onDraw", "pointerDown", "pointerMove", "pointerUp", "pointerLeave"}

PaintIndices == 1..Len(paints)

\* C1: in both components no error raised by the draw callback, by getCanvas
\* or flush on an invalidated surface, or by surface construction or release
\* leaves surface setup, a paint, a frame callback or teardown: every step
\* returns normally.
C1_NoErrorEscapes == ~raised

\* C1, the interactive component alone, for which the statement holds.
C1_InteractiveContains == variant = "interactive" => ~raised

\* C2: after every step at most one engine surface that was created for the
\* canvas is still unreleased, also when an acquisition failed or the release
\* of the previous surface raised.
C2_SingleLiveSurface == Cardinality(LiveSurfaces(surfaces)) <= 1

\* C2 witness: an acquisition that followed a failed release of the previous
\* surface and produced the one live surface.
C2_Witness ==
  /\ acq.ran /\ acq.ok /\ acq.release = "failed"
  /\ Cardinality(LiveSurfaces(surfaces)) = 1

\* C3: in one acquisition, if the hardware constructor raises or returns null
\* the software constructor is called exactly once, and if the hardware
\* constructor succeeds the software constructor is not called.
C3_FallbackOrder ==
  acq.ran => /\ acq.hwOut = "ok" => acq.sw = 0
             /\ acq.hwOut # "ok" => acq.sw = 1

\* A frame callback ran and its paint failed.
FailedTick == lastOp = "tick" /\ paints # <<>> /\ ~paints[1].flushed

\* C4: in continuous mode a frame callback whose paint fails does not call
\* requestAnimationFrame, and from then on no step schedules a frame for the
\* canvas until a surface is acquired again.
C4_LoopStopsOnFailure ==
  /\ FailedTick => ~paints[1].scheduled
  /\ loopFailed => \A i \in PaintIndices : ~paints[i].scheduled

\* C5: after a frame callback's paint failed, the surface is no longer
\* registered (surfaceRef is empty) and the loop handle is cleared.
C5_FailedPaintUnbinds ==
  (variant = "interactive" /\ FailedTick)
    => surfaceRef = Null /\ animationFrameRef = Null

\* C6: teardown, also when run a second time, and the release of a surface
\* whose handle is invalid never raise, and teardown leaves no registered
\* surface and no scheduled frame.
C6_TeardownIdempotent ==
  /\ lastOp \in {"teardown", "teardownAgain"}
       => ~raised /\ surfaceRef = Null /\ pending = <<>>
  /\ acq.release = "failed" => ~raised

\* C7: the buffer size set at acquisition is (ceil(w*d), ceil(h*d)), and a
\* commit's paints hand the callback the logical size (w, h).
C7_DprCorrectness ==
  /\ acq.ran => canvasSize = <<CeilSize(width, dpr), CeilSize(height, dpr)>>
  /\ lastOp \in Commits =>
       \A i \in PaintIndices :
         paints[i].called => <<paints[i].w, paints[i].h>> = <<width, height>>

\* C8: every draw callback invocation receives the current width and height
\* and runs against a surface built for them; a frame scheduled before a
\* resize does not paint the old size onto the new surface.
C8_ResizeAtomic ==
  \A i \in PaintIndices :
    paints[i].called =>
      /\ <<paints[i].w, paints[i].h>> = <<width, height>>
      /\ paints[i].built = <<width, height>>

\* C9: once a pointer event has been handled, every paint passes the draw
\* callback the InteractionState that the event produced, never an older one.
C9_FreshInteractionState ==
  \A i \in PaintIndices :
    paints[i].called => paints[i].istate = interactionState

\* C10: while the engine handle (and with it the canvas element) is absent no
\* step calls a surface constructor, invokes the draw callback or raises.
C10_NotReadyIsNoOp ==
  ~canvasKit =>
    /\ ~acq.ran /\ acq.hw = 0 /\ acq.sw = 0
    /\ paints = <<>>
    /\ ~raised
    /\ surfaceRef = Null

\* C10 witness: redraw() was called while the engine handle was absent.
C10_Witness == ~canvasKit /\ lastOp = "redraw"

\* C11: in every reachable state at most one requestAnimationFrame callback
\* is pending for the canvas.
C11_OneRepaintChain == Len(pending) <= 1

\* C12: once the component is unmounted no frame is scheduled, no surface is
\* live and no step invokes the draw callback.
C12_TeardownPostcondition ==
  phase = "unmounted" =>
    /\ pending = <<>>
    /\ LiveSurfaces(surfaces) = {}
    /\ \A i \in PaintIndices : ~paints[i].called

\* The mounted component has the engine handle and no registered surface: its
\* last acquisition failed.
AcquisitionFailed == phase = "mounted" /\ canvasKit /\ surfaceRef = Null

\* C13: after a failed acquisition no step calls setupSurface again while
\* the component stays mounted with the same width, height and engine handle.
C13_NoRetry ==
  [][(/\ AcquisitionFailed
      /\ phase' = "mounted"
      /\ canvasKit' = canvasKit /\ width' = width /\ height' = height)
       => ~acq'.ran]_vars

\* What the component renders: the placeholder until the engine handle is
\* there, the canvas element afterwards, whatever setupSurface returned.
Rendered(ck) == IF ck THEN "canvas" ELSE "placeholder"

\* What the parent gets from a commit: the rendered element and an error, if
\* one propagated out of the effects (there is no error prop, state or
\* callback, and the ref handle exposes redraw and getCanvas only).
HostObserves == [element |-> Rendered(canvasKit), error |-> raised]

\* C14: when a commit's acquisition fails for every surface kind, what the
\* parent observes differs from what it observes after a success.
C14_FailureReported ==
  (lastOp \in Commits /\ acq.ran /\ ~acq.ok)
    => HostObserves # [element |-> "canvas", error |-> FALSE]

\* C15: when the buffer of the canvas is the logical size times the pixel
\* ratio and its bounding box has the logical size, normalizePointerEvent
\* maps client (cx, cy) with box origin (l, t) to (cx - l, cy - t), on each
\* axis and for every pixel ratio.
C15_PointerNormalization ==
  call.applied =>
    LET r == EffectiveDpr(call.dpr)
        c == call.canvas
    IN  /\ (c.width * r[2] = call.logical[1] * r[1] /\ c.rect.width = call.logical[1])
             => call.out.x = <<call.e.clientX - c.rect.left, 1>>
        /\ (c.height * r[2] = call.logical[2] * r[1] /\ c.rect.height = call.logical[2])
             => call.out.y = <<call.e.clientY - c.rect.top, 1>>

\* C15 witness: client (120, 80), box origin (20, 10), pixel ratio 2 gave
\* (100, 70).
C15_Witness ==
  /\ call.applied
  /\ call.dpr = <<2, 1>>
  /\ call.e = [clientX |-> 120, clientY |-> 80]
  /\ <<call.canvas.rect.left, call.canvas.rect.top>> = <<20, 10>>
  /\ call.out = [x |-> <<100, 1>>, y |-> <<70, 1>>]

\* C15 witness at a fractional pixel ratio whose product with the width is
\* an integer.
C15_WitnessFractional ==
  /\ call.applied /\ call.dpr = <<3, 2>> /\ call.logical[1] = 4
  /\ call.canvas.width = 6
  /\ call.out.x = <<call.e.clientX - call.canvas.rect.left, 1>>

\* At most one script element is appended and CanvasKitInit is called at
\* most once, whatever the providers and the page do.
OneInitialization == started.scripts <= 1 /\ started.inits <= 1

\* C16: at most one initialization is ever started, every provider that
\* calls loadCanvasKit while it is in flight is handed the promise of that
\* initialization, and the providers that waited on it receive the instance
\* it produced.
C16_SingleFlight ==
  /\ OneInitialization
  /\ \A p \in Providers :
       requesters[p].inFlight =>
         /\ requesters[p].on = "promise"
         /\ requesters[p].state = "ready" => requesters[p].got = "loaded"

\* C17: however loadImage calls with caching interleave, every live image
\* they created is the cache's entry for its url, and two callers that
\* asked for the same url and hold live images hold the same image.
C17_CachePopulationIdempotent ==
  /\ \A i \in DOMAIN images :
       (images[i].state = "live" /\ images[i].caching)
         => imageCache[images[i].url] = i
  /\ \A c1, c2 \in Loaders :
       (/\ loads[c1].state = "done" /\ loads[c2].state = "done"
        /\ loads[c1].useCache /\ loads[c2].useCache
        /\ loads[c1].url = loads[c2].url
        /\ loads[c1].got # Null /\ loads[c2].got # Null
        /\ images[loads[c1].got].state = "live"
        /\ images[loads[c2].got].state = "live")
         => loads[c1].got = loads[c2].got

\* The paints of the last step that invoked the draw callback.
CalledPaints == {i \in PaintIndices : paints[i].called}

\* C18: a mount or a dimension change that acquires a surface invokes the
\* draw callback exactly once before it returns, with and without animate.
C18_PaintsOnce ==
  (lastOp \in {"mount", "resize"} /\ acq.ran /\ acq.ok)
    => Cardinality(CalledPaints) = 1

\* The steps that change an input of the paint without changing the surface's
\* dimensions or engine.
InputChanges == {"theme", "onDraw", "pointerDown", "pointerMove", "pointerUp",
                 "pointerLeave"}

\* C19: input changes that follow one another with no animation frame
\* between them cause one paint together: an input change invokes the draw
\* callback at most once, and not at all if the input change before it
\* already did.
C19_Coalescing ==
  [][/\ lastOp' \in InputChanges => Cardinality(CalledPaints') <= 1
     /\ (lastOp \in InputChanges /\ lastOp' \in InputChanges)
          => Cardinality(CalledPaints) + Cardinality(CalledPaints') <= 1]_vars

\* The steps after which the component has the same width, height and engine
\* handle as before: pointer events, a typeface or theme change, a change of
\* the animate flag.
SurfaceKeepingChanges ==
  {"pointerDown", "pointerMove", "pointerUp", "pointerLeave", "typeface",
   "theme", "animate"}

\* C20: while the canvas stays mounted with a live surface, such a step
\* neither releases the surface nor constructs another one.
C20_SurfaceKept ==
  [][(/\ Mounted /\ phase' = "mounted"
      /\ surfaceRef # Null /\ surfaces[surfaceRef].state = "live"
      /\ lastOp' \in SurfaceKeepingChanges)
       => /\ acq'.release = "none" /\ ~acq'.ran
          /\ surfaceRef' = surfaceRef]_vars

\* C21: no paint obtains its canvas from a surface that was released, and
\* the ref never names a released surface when a step has completed.
C21_NoPaintOnReleased ==
  /\ \A i \in PaintIndices : paints[i].state # "deleted"
  /\ surfaceRef # Null => surfaces[surfaceRef].state # "deleted"

\* C21 witness: a frame callback scheduled before a resize painted after it,
\* on the surface that replaced the released one.
C21_Witness ==
  /\ lastOp = "tick" /\ paints # <<>>
  /\ paints[1].called /\ paints[1].state = "live"
  /\ <<paints[1].w, paints[1].h>> # <<width, height>>

\* C22: every paint that reaches the canvas scales it by the pixel ratio
\* the surface's buffer was sized with.
C22_DprConsistency ==
  \A i \in PaintIndices :
    paints[i].state = "live" => paints[i].scale = EffectiveDpr(paints[i].bufDpr)

\* C23: no paint begins while the draw callback of another paint is running.
C23_NoNestedPaint == \A i \in PaintIndices : ~paints[i].nested

\* C25: a paint scales, then calls the callback once, then flushes; it
\* flushes only after the callback returned, and not when the callback raised.
C25_PaintStepOrder ==
  \A i \in PaintIndices :
    LET p == paints[i]
        at(x) == {k \in DOMAIN p.steps : p.steps[k] = x}
    IN p.called =>
         /\ Cardinality(at("callback")) = 1
         /\ Cardinality(at("scale")) = 1
         /\ \A a \in at("scale"), c \in at("callback") : a < c
         /\ \A c \in at("callback"), f \in at("flush") : c < f
         /\ p.flushed => at("flush") # {}
         /\ p.thrown = "callback" => (at("flush") = {} /\ ~p.flushed)

\* C25 witness: one step painted with a callback that raised, unflushed.
C25_Witness ==
  /\ paints # <<>>
  /\ paints[1].called /\ paints[1].thrown = "callback" /\ ~paints[1].flushed

\* C26: between steps no live surface carries a save() without its restore(),
\* so every callback runs under a single scale.
C26_TransformBalanced ==
  /\ \A i \in DOMAIN surfaces : surfaces[i].state = "live" => surfaces[i].saves = 0
  /\ \A i \in PaintIndices : paints[i].called => paints[i].depth = 1

\* C24: after a pointer-down for pointer p the canvas holds capture for p,
\* and after the pointer-up or pointer-cancel for p it no longer does.
C24_CaptureFollowsPress ==
  [][\A p \in PointerIds :
       /\ handlePointerDownOf(p) => p \in capture'
       /\ handlePointerUpOf(p) => p \notin capture']_vars

\* C27: isPressed is true and activePointerId is set exactly while a pointer
\* that went down on the canvas is not up yet, and the pointer-up or cancel
\* of another pointer than activePointerId leaves both unchanged.
C27_PressedFollowsPointers ==
  [][(Mounted /\ phase' = "mounted") =>
     /\ interactionState'.isPressed <=> down' # {}
     /\ interactionState'.activePointerId # Null <=> down' # {}
     /\ \A p \in PointerIds :
          (handlePointerUpOf(p) /\ p # interactionState.activePointerId)
            => /\ interactionState'.isPressed = interactionState.isPressed
               /\ interactionState'.activePointerId = interactionState.activePointerId]_vars

\* C29: for whole min < max and step > 0 the value a slider computes from a
\* pointer position lies in [min, max].
C29_ValueInRange ==
  (call.applied /\ "track" \in DOMAIN call) =>
    /\ call.track.min * call.value[2] <= call.value[1]
    /\ call.value[1] <= call.track.max * call.value[2]

\* The callbacks of one kind the widget called in the last step.
Emitted(cb) == {i \in DOMAIN widget.emitted : widget.emitted[i].cb = cb}

\* C28: the pointer-up or cancel that follows the pointer-down of a drag ends
\* it (isDragging false, onChangeEnd called once), and a pointer-move while no
\* pointer is down calls no onChange.
C28_DragEnds ==
  [][(Mounted /\ phase' = "mounted") =>
       /\ (handlePointerUpOf(1) /\ widget.isDragging)
            => (~widget'.isDragging /\ Cardinality(Emitted("onChangeEnd")') = 1)
       /\ down' = {} => ~widget'.isDragging
       /\ (lastOp' = "pointerMove" /\ down' = {}) => Emitted("onChange")' = {}]_vars

\* C30: a range emitted while a thumb is dragged has the other thumb's value
\* equal to the value prop at the time.
C30_OtherThumbKept ==
  \A i \in Emitted("onChange") :
    LET e == widget.emitted[i]
    IN  e.via = "pointer" =>
          /\ e.thumb = "start" => e.value[2] = e.prop[2]
          /\ e.thumb = "end" => e.value[1] = e.prop[1]

====
